---- MODULE Spec2Model ----
(***************************************************************************)
(* Model of cli/internal/utils/pki.go: RandomString, and GeneratePKI with  *)
(* generateCA, generateCert, generateFromTemplate and savePrivateKey,      *)
(* running against a certificate directory on disk.                        *)
(***************************************************************************)
EXTENDS Integers, Sequences, FiniteSets, TLC

VARIABLES
    procs,       \* the GeneratePKI invocations of this run
    host,        \* host[p]: the argument of GeneratePKI
    pc,          \* pc[p]: position of invocation p in the code
    err,         \* err[p]: the error that ended p ("" is nil)
    template,    \* template[p]: the template under construction
    caPriv,      \* caPriv[p]: generateCA's local priv (0: none)
    caDer,       \* caDer[p]: generateCA's derBytes
    ca,          \* ca[p]: GeneratePKI's ca
    caKey,       \* caKey[p]: GeneratePKI's caKey (0: nil)
    priv,        \* priv[p]: generateCert's priv (0: none)
    derBytes,    \* derBytes[p]: generateFromTemplate's derBytes
    stdout,      \* stdout[p]: what GeneratePKI printed
    cluster,     \* the tls-pem secret of the cluster (ExecCommand)
    fs,          \* the certificate directory: file name -> file
    fs0,         \* the directory as it was when the run started
    dirWritable, \* FALSE: every file creation in the directory fails
    umask,       \* the process's file mode creation mask
    nextKey,     \* crypto/rand: the next key pair rsa.GenerateKey yields
    nextSerial,  \* crypto/rand: the next serial number rand.Int yields
    rsPc,        \* position in RandomString
    length,      \* RandomString's argument
    bytes,       \* RandomString's bytes, as read from crypto/rand
    rsOut        \* RandomString's result, a sequence of characters

pkiVars == <<procs, host, pc, err, template, caPriv, caDer, ca, caKey, priv,
             derBytes, stdout, cluster, fs, fs0, dirWritable, umask,
             nextKey, nextSerial>>
rsVars == <<rsPc, length, bytes, rsOut>>
vars == <<pkiVars, rsVars>>

----------------------------------------------------------------------------
(* Bounds of the model *)

\* RandomString is called with lengths 0..MaxLen
MaxLen == 3

----------------------------------------------------------------------------
(* Bit arithmetic on non-negative integers *)

RECURSIVE BitAnd(_, _)
BitAnd(a, b) ==
    IF a = 0 \/ b = 0 THEN 0
    ELSE (IF a % 2 = 1 /\ b % 2 = 1 THEN 1 ELSE 0) + 2 * BitAnd(a \div 2, b \div 2)

BitOr(a, b) == a + b - BitAnd(a, b)

AndNot(a, b) == a - BitAnd(a, b)

----------------------------------------------------------------------------
(* Constants of the program *)

org == "Zarf Utility Cluster"

\* time.Hour * 24 * 375, in hours
validFor == 24 * 375

\* crypto/x509 KeyUsage bits
KeyUsageDigitalSignature == 1
KeyUsageKeyEncipherment == 4
KeyUsageCertSign == 32

\* os.Create opens with mode 0666, savePrivateKey with 0600
CreateMode == 438
KeyFileMode == 384

caFileName == "zarf-ca.pem"
hostCertName == "zarf-server.crt"
hostKeyName == "zarf-server.key"
Paths == {caFileName, hostCertName, hostKeyName}

randomStringChars ==
    << "0","1","2","3","4","5","6","7","8","9",
       "a","b","c","d","e","f","g","h","i","j","k","l","m",
       "n","o","p","q","r","s","t","u","v","w","x","y","z",
       "A","B","C","D","E","F","G","H","I","J","K","L","M",
       "N","O","P","Q","R","S","T","U","V","W","X","Y","Z",
       "!","~","-" >>

----------------------------------------------------------------------------
(* net.ParseIP, on the characters of the string *)

\* The characters of each host the model passes to GeneratePKI
Chars(h) ==
    CASE h = "127.0.0.1"   -> << "1","2","7",".","0",".","0",".","1" >>
      [] h = "10.0.0.256"  -> << "1","0",".","0",".","0",".","2","5","6" >>
      [] h = "1.2.3"       -> << "1",".","2",".","3" >>
      [] h = "::1"         -> << ":",":","1" >>
      [] h = "fe80::1:2"   -> << "f","e","8","0",":",":","1",":","2" >>
      [] h = "example.org" -> << "e","x","a","m","p","l","e",".","o","r","g" >>
      [] h = "localhost"   -> << "l","o","c","a","l","h","o","s","t" >>
      [] OTHER             -> << >>

Hosts == {"127.0.0.1", "10.0.0.256", "1.2.3", "::1", "fe80::1:2",
          "example.org", "localhost", ""}

IPv4len == 4
IPv6len == 16
big == 16777215

DecDigits == << "0","1","2","3","4","5","6","7","8","9" >>
HexLower == << "0","1","2","3","4","5","6","7","8","9","a","b","c","d","e","f" >>
HexUpper == << "0","1","2","3","4","5","6","7","8","9","A","B","C","D","E","F" >>

\* the value of character c among digits, or -1
DigitOf(c, digits) ==
    IF \E i \in 1..Len(digits) : digits[i] = c
    THEN (CHOOSE i \in 1..Len(digits) : digits[i] = c) - 1
    ELSE -1

XDigitOf(c) ==
    IF DigitOf(c, HexLower) >= 0 THEN DigitOf(c, HexLower) ELSE DigitOf(c, HexUpper)

Drop(s, k) == SubSeq(s, k + 1, Len(s))

\* dtoi: decimal to integer; [n, c, ok] with c the characters consumed
RECURSIVE dtoiLoop(_, _, _)
dtoiLoop(s, i, n) ==
    IF i < Len(s) /\ DigitOf(s[i + 1], DecDigits) >= 0
    THEN LET m == n * 10 + DigitOf(s[i + 1], DecDigits)
         IN  IF m >= big THEN [n |-> big, c |-> i, ok |-> FALSE]
             ELSE dtoiLoop(s, i + 1, m)
    ELSE IF i = 0 THEN [n |-> 0, c |-> 0, ok |-> FALSE]
         ELSE [n |-> n, c |-> i, ok |-> TRUE]

dtoi(s) == dtoiLoop(s, 0, 0)

\* xtoi: hexadecimal to integer
RECURSIVE xtoiLoop(_, _, _)
xtoiLoop(s, i, n) ==
    IF i < Len(s) /\ XDigitOf(s[i + 1]) >= 0
    THEN LET m == n * 16 + XDigitOf(s[i + 1])
         IN  IF m >= big THEN [n |-> 0, c |-> i, ok |-> FALSE]
             ELSE xtoiLoop(s, i + 1, m)
    ELSE IF i = 0 THEN [n |-> 0, c |-> i, ok |-> FALSE]
         ELSE [n |-> n, c |-> i, ok |-> TRUE]

xtoi(s) == xtoiLoop(s, 0, 0)

NilIP == << >>

\* net.IPv4: the 16-byte form of a.b.c.d
IPv4(a, b, c, d) == << 0,0,0,0,0,0,0,0,0,0,255,255, a, b, c, d >>

RECURSIVE parseIPv4Loop(_, _, _)
parseIPv4Loop(s, i, p) ==
    IF i = IPv4len
    THEN IF Len(s) # 0 THEN NilIP ELSE IPv4(p[1], p[2], p[3], p[4])
    ELSE IF Len(s) = 0 THEN NilIP
    ELSE IF i > 0 /\ s[1] # "." THEN NilIP
    ELSE LET s1 == IF i > 0 THEN Drop(s, 1) ELSE s
             r  == dtoi(s1)
         IN  IF ~r.ok \/ r.n > 255 THEN NilIP
             ELSE IF r.c > 1 /\ s1[1] = "0" THEN NilIP
             ELSE parseIPv4Loop(Drop(s1, r.c), i + 1, Append(p, r.n))

parseIPv4(s) == parseIPv4Loop(s, 0, << >>)

\* the tail of parseIPv6: expand the ellipsis over the bytes parsed
ExpandEllipsis(ip, i, ellipsis) ==
    IF i < IPv6len
    THEN IF ellipsis < 0 THEN NilIP
         ELSE SubSeq(ip, 1, ellipsis)
              \o [j \in 1..(IPv6len - i) |-> 0]
              \o SubSeq(ip, ellipsis + 1, i)
    ELSE IF ellipsis >= 0 THEN NilIP ELSE ip

\* the loop of parseIPv6: ip holds the i bytes parsed so far
RECURSIVE parseIPv6Loop(_, _, _, _)
parseIPv6Loop(s, i, ip, ellipsis) ==
    IF i >= IPv6len
    THEN IF Len(s) # 0 THEN NilIP ELSE ExpandEllipsis(ip, i, ellipsis)
    ELSE
    LET r == xtoi(s) IN
    IF ~r.ok \/ r.n > 65535 THEN NilIP
    ELSE IF r.c < Len(s) /\ s[r.c + 1] = "."
    THEN \* trailing IPv4
         IF ellipsis < 0 /\ i # IPv6len - IPv4len THEN NilIP
         ELSE IF i + IPv4len > IPv6len THEN NilIP
         ELSE LET ip4 == parseIPv4(s)
              IN  IF ip4 = NilIP THEN NilIP
                  ELSE ExpandEllipsis(ip \o SubSeq(ip4, 13, 16), i + IPv4len, ellipsis)
    ELSE LET ip1 == ip \o << r.n \div 256, r.n % 256 >>
             s1  == Drop(s, r.c)
         IN  IF Len(s1) = 0 THEN ExpandEllipsis(ip1, i + 2, ellipsis)
             ELSE IF s1[1] # ":" \/ Len(s1) = 1 THEN NilIP
             ELSE LET s2 == Drop(s1, 1)
                  IN  IF s2[1] = ":"
                      THEN IF ellipsis >= 0 THEN NilIP
                           ELSE IF Len(s2) = 1
                                THEN ExpandEllipsis(ip1, i + 2, i + 2)
                                ELSE parseIPv6Loop(Drop(s2, 1), i + 2, ip1, i + 2)
                      ELSE parseIPv6Loop(s2, i + 2, ip1, ellipsis)

parseIPv6(s) ==
    IF Len(s) >= 2 /\ s[1] = ":" /\ s[2] = ":"
    THEN IF Len(s) = 2 THEN [j \in 1..IPv6len |-> 0]
         ELSE parseIPv6Loop(Drop(s, 2), 0, << >>, 0)
    ELSE parseIPv6Loop(s, 0, << >>, -1)

\* net.ParseIP: the first '.' or ':' of s selects the parser
RECURSIVE ParseIPScan(_, _)
ParseIPScan(s, i) ==
    IF i > Len(s) THEN NilIP
    ELSE IF s[i] = "." THEN parseIPv4(s)
    ELSE IF s[i] = ":" THEN parseIPv6(s)
    ELSE ParseIPScan(s, i + 1)

ParseIP(h) == ParseIPScan(Chars(h), 1)

----------------------------------------------------------------------------
(* crypto/x509, encoding/pem and the files of the certificate directory *)

NoErr == ""

\* the public half of key pair k
Public(k) == [N |-> k]

\* x509.CreateCertificate: the DER bytes of tmpl, issued by parent (a template
\* or a parsed certificate), for public key pub, signed with private key signer
CreateCertificate(tmpl, parent, pub, signer) ==
    [ TBS |-> [ SerialNumber          |-> tmpl.SerialNumber,
                Subject               |-> tmpl.Subject,
                Issuer                |-> parent.Subject,
                Validity              |-> tmpl.Validity,
                KeyUsage              |-> tmpl.KeyUsage,
                BasicConstraintsValid |-> tmpl.BasicConstraintsValid,
                IsCA                  |-> tmpl.IsCA,
                DNSNames              |-> tmpl.DNSNames,
                IPAddresses           |-> tmpl.IPAddresses,
                PublicKey             |-> pub ],
      Signature |-> [by |-> signer] ]

NoDer == [TBS |-> [SerialNumber |-> 0], Signature |-> [by |-> 0]]

\* x509.ParseCertificate: the structured certificate of DER bytes
ParseCertificate(der) ==
    [ Raw          |-> der,
      SerialNumber |-> der.TBS.SerialNumber,
      Subject      |-> der.TBS.Subject,
      Issuer       |-> der.TBS.Issuer,
      KeyUsage     |-> der.TBS.KeyUsage,
      IsCA         |-> der.TBS.IsCA,
      DNSNames     |-> der.TBS.DNSNames,
      IPAddresses  |-> der.TBS.IPAddresses,
      PublicKey    |-> der.TBS.PublicKey ]

NoCert == [Raw |-> NoDer]

\* Certificate.CheckSignatureFrom: der verifies against the parent's public key
CheckSignatureFrom(der, parentCert) ==
    Public(der.Signature.by) = parentCert.PublicKey

\* x509.MarshalPKCS1PrivateKey
MarshalPKCS1PrivateKey(k) == [PKCS1 |-> k]

CertificateBlock(der) == [Type |-> "CERTIFICATE", Bytes |-> der]

PrivateKeyBlock(k) == [Type |-> "RSA PRIVATE KEY", Bytes |-> MarshalPKCS1PrivateKey(k)]

\* a file: data is the PEM blocks it holds, partial says that a write or the
\* close of the last writer failed, so that the file holds less than was sent
Absent == [exists |-> FALSE, mode |-> 0, data |-> << >>, partial |-> FALSE]

\* os.OpenFile(name, O_CREATE|O_TRUNC, perm) on file f: the mode is given
\* to a file that is created, and an existing file keeps its own
OpenFile(f, perm, mask) ==
    IF f.exists
    THEN [f EXCEPT !.data = << >>, !.partial = FALSE]
    ELSE [exists |-> TRUE, mode |-> AndNot(perm, mask), data |-> << >>, partial |-> FALSE]

\* os.Create(name) on file f
Create(f, mask) == OpenFile(f, CreateMode, mask)

\* pem.Encode(out, block) and out.Close() on file f; r is what the I/O did
IOResults == {"ok", "write_err", "close_err"}

Encode(f, block, r) ==
    CASE r = "ok"        -> [f EXCEPT !.data = << block >>, !.partial = FALSE]
      [] r = "write_err" -> [f EXCEPT !.data = << >>, !.partial = TRUE]
      [] r = "close_err" -> [f EXCEPT !.data = << block >>, !.partial = TRUE]

\* file f holds exactly block, completely written
Holds(f, block) == f.exists /\ ~f.partial /\ f.data = << block >>

----------------------------------------------------------------------------
(* Templates *)

\* newCertificate with the certificate-sign bit in every template
newCertificate_CertSign(serial) ==
    [ SerialNumber          |-> serial,
      Subject               |-> [Organization |-> << org >>, CommonName |-> ""],
      Validity              |-> validFor,
      KeyUsage              |-> BitOr(BitOr(KeyUsageKeyEncipherment, KeyUsageDigitalSignature),
                                      KeyUsageCertSign),
      BasicConstraintsValid |-> TRUE,
      IsCA                  |-> FALSE,
      DNSNames              |-> << >>,
      IPAddresses           |-> << >> ]

\* newCertificate: a new template with the serial number rand.Int gave
newCertificate(serial) ==
    [ SerialNumber          |-> serial,
      Subject               |-> [Organization |-> << org >>, CommonName |-> ""],
      Validity              |-> validFor,
      KeyUsage              |-> BitOr(KeyUsageKeyEncipherment, KeyUsageDigitalSignature),
      BasicConstraintsValid |-> TRUE,
      IsCA                  |-> FALSE,
      DNSNames              |-> << >>,
      IPAddresses           |-> << >> ]

NoTemplate == [SerialNumber |-> 0]

\* generateCA, lines 112-115: the template of the CA
caTemplate(serial) ==
    LET t == newCertificate(serial)
    IN  [t EXCEPT !.IsCA = TRUE,
                  !.KeyUsage = BitOr(t.KeyUsage, KeyUsageCertSign),
                  !.Subject.CommonName = "Zarf Private Certificate Authority"]

\* generateCert treating every host as a DNS name
certTemplate_AlwaysDNS(h, serial) ==
    LET t == [SerialNumber          |-> serial,
              Subject               |-> [Organization |-> << org >>, CommonName |-> h],
              Validity              |-> validFor,
              KeyUsage              |-> BitOr(KeyUsageKeyEncipherment, KeyUsageDigitalSignature),
              BasicConstraintsValid |-> TRUE,
              IsCA                  |-> FALSE,
              DNSNames              |-> << h, "localhost", "*.localhost" >>,
              IPAddresses           |-> << >> ]
    IN  t

\* generateCert, lines 148-158: the template of the leaf for host h
certTemplate(h, serial) ==
    LET t  == newCertificate(serial)
        ip == ParseIP(h)
    IN  IF ip # NilIP
        THEN [t EXCEPT !.IPAddresses = Append(t.IPAddresses, ip)]
        ELSE LET d == [t EXCEPT !.DNSNames = t.DNSNames \o << h, "localhost", "*.localhost" >>]
             IN  IF d.Subject.CommonName = ""
                 THEN [d EXCEPT !.Subject.CommonName = h]
                 ELSE d

\* generateFromTemplate signing with the certificate's own key
signFromTemplate_SelfSigned(tmpl, parent, key, parentKey) ==
    CreateCertificate(tmpl, parent, Public(key), key)

\* generateFromTemplate, line 171: the DER bytes of the signed certificate
signFromTemplate(tmpl, parent, key, parentKey) ==
    CreateCertificate(tmpl, parent, Public(key), parentKey)

\* GeneratePKI going on whatever the error
afterCall_Ignored(e, next) == next

\* GeneratePKI, lines 53-55 and 59-61: a non-nil error is fatal
afterCall(e, next) == IF e # NoErr THEN "Failed" ELSE next

----------------------------------------------------------------------------
(* The state of a run *)

\* the files an earlier, complete run for example.org left behind, with the
\* key file in mode keyMode; that run drew key pairs 1, 2 and serials 1, 2
PriorRun(keyMode) ==
    LET caDer0  == CreateCertificate(caTemplate(1), caTemplate(1), Public(1), 1)
        ca0     == ParseCertificate(caDer0)
        der0    == signFromTemplate(certTemplate("example.org", 2), ca0, 2, 1)
        file(m, b) == [exists |-> TRUE, mode |-> m, data |-> << b >>, partial |-> FALSE]
    IN  [f \in Paths |->
            CASE f = caFileName   -> file(420, CertificateBlock(caDer0))
              [] f = hostCertName -> file(420, CertificateBlock(der0))
              [] f = hostKeyName  -> file(keyMode, PrivateKeyBlock(2))]

EmptyDir == [f \in Paths |-> Absent]

\* the modes an existing key file may have: 0600, 0644, 0666
PriorKeyModes == {384, 420, 438}

\* the umasks of a run: 000, 022, 077
Umasks == {0, 18, 63}

InitRandomString ==
    /\ rsPc = "idle"
    /\ length = 0
    /\ bytes = << >>
    /\ rsOut = << >>

InitPKI(ps, hosts, dirs, writable, masks) ==
    /\ procs = ps
    /\ host \in [ps -> hosts]
    /\ pc = [p \in ps |-> "Start"]
    /\ err = [p \in ps |-> NoErr]
    /\ template = [p \in ps |-> NoTemplate]
    /\ caPriv = [p \in ps |-> 0]
    /\ caDer = [p \in ps |-> NoDer]
    /\ ca = [p \in ps |-> NoCert]
    /\ caKey = [p \in ps |-> 0]
    /\ priv = [p \in ps |-> 0]
    /\ derBytes = [p \in ps |-> NoDer]
    /\ stdout = [p \in ps |-> << >>]
    /\ cluster = << >>
    /\ fs0 \in dirs
    /\ fs = fs0
    /\ dirWritable \in writable
    /\ umask \in masks
    /\ nextKey = (IF fs0 = EmptyDir THEN 1 ELSE 3)
    /\ nextSerial = (IF fs0 = EmptyDir THEN 1 ELSE 3)

Dirs == {EmptyDir} \cup {PriorRun(m) : m \in PriorKeyModes}

\* one invocation of GeneratePKI
Init ==
    /\ InitPKI({1}, Hosts, Dirs, BOOLEAN, Umasks)
    /\ InitRandomString

----------------------------------------------------------------------------
(* GeneratePKI, statement by statement *)

goto(p, l) == pc' = [pc EXCEPT ![p] = l]

\* generateCA or generateCert returns error e to GeneratePKI, which goes on
\* at next if e is nil
return(p, e, next) ==
    /\ pc' = [pc EXCEPT ![p] = afterCall(e, next)]
    /\ err' = [err EXCEPT ![p] = e]

\* logrus.Fatal inside a callee
fatal(p, e) ==
    /\ pc' = [pc EXCEPT ![p] = "Failed"]
    /\ err' = [err EXCEPT ![p] = e]

\* generateCA, lines 112-115: newCertificate and the CA's fields
GenerateCA_Template(p) ==
    /\ pc[p] = "Start"
    /\ \/ /\ template' = [template EXCEPT ![p] = caTemplate(nextSerial)]
          /\ nextSerial' = nextSerial + 1
          /\ goto(p, "ca_template")
          /\ UNCHANGED err
       \/ /\ fatal(p, "failed to generate serial number")
          /\ UNCHANGED <<template, nextSerial>>
    /\ UNCHANGED <<procs, host, caPriv, caDer, ca, caKey, priv, derBytes, stdout,
                   cluster, fs, fs0, dirWritable, umask, nextKey, rsVars>>

\* generateCA, lines 117-120: newPrivateKey
GenerateCA_NewPrivateKey(p) ==
    /\ pc[p] = "ca_template"
    /\ \/ /\ caPriv' = [caPriv EXCEPT ![p] = nextKey]
          /\ nextKey' = nextKey + 1
          /\ goto(p, "ca_key")
          /\ UNCHANGED err
       \/ /\ return(p, "rsa: key generation failed", "CA-Created")
          /\ UNCHANGED <<caPriv, nextKey>>
    /\ UNCHANGED <<procs, host, template, caDer, ca, caKey, priv, derBytes, stdout,
                   cluster, fs, fs0, dirWritable, umask, nextSerial, rsVars>>

\* generateCA, lines 122-130: self-sign, then parse the bytes back
GenerateCA_CreateCertificate(p) ==
    /\ pc[p] = "ca_key"
    /\ \/ /\ caDer' = [caDer EXCEPT ![p] =
                 CreateCertificate(template[p], template[p], Public(caPriv[p]), caPriv[p])]
          /\ goto(p, "ca_signed")
          /\ UNCHANGED err
       \/ /\ return(p, "x509: cannot sign", "CA-Created")
          /\ UNCHANGED caDer
    /\ UNCHANGED <<procs, host, template, caPriv, ca, caKey, priv, derBytes, stdout,
                   cluster, fs, fs0, dirWritable, umask, nextKey, nextSerial, rsVars>>

\* generateCA, lines 132-135: os.Create(caFile)
GenerateCA_Create(p) ==
    /\ pc[p] = "ca_signed"
    /\ \/ /\ dirWritable
          /\ fs' = [fs EXCEPT ![caFileName] = Create(@, umask)]
          /\ goto(p, "ca_open")
          /\ UNCHANGED err
       \/ /\ return(p, "open: permission denied", "CA-Created")
          /\ UNCHANGED fs
    /\ UNCHANGED <<procs, host, template, caPriv, caDer, ca, caKey, priv, derBytes,
                   stdout, cluster, fs0, dirWritable, umask, nextKey, nextSerial, rsVars>>

\* generateCA writing the private key after the certificate
GenerateCA_Encode_WithKey(p) ==
    /\ pc[p] = "ca_open"
    /\ fs' = [fs EXCEPT ![caFileName] =
                 [@ EXCEPT !.data = << CertificateBlock(caDer[p]), PrivateKeyBlock(caPriv[p]) >>]]
    /\ ca' = [ca EXCEPT ![p] = ParseCertificate(caDer[p])]
    /\ caKey' = [caKey EXCEPT ![p] = caPriv[p]]
    /\ return(p, NoErr, "CA-Created")
    /\ UNCHANGED <<procs, host, template, caPriv, caDer, priv, derBytes, stdout,
                   cluster, fs0, dirWritable, umask, nextKey, nextSerial, rsVars>>

\* generateCA keeping the CA and its key in variables of the package
GenerateCA_Encode_Global(p) ==
    /\ pc[p] = "ca_open"
    /\ fs' = [fs EXCEPT ![caFileName] = Encode(@, CertificateBlock(caDer[p]), "ok")]
    /\ ca' = [q \in procs |-> ParseCertificate(caDer[p])]
    /\ caKey' = [q \in procs |-> caPriv[p]]
    /\ return(p, NoErr, "CA-Created")
    /\ UNCHANGED <<procs, host, template, caPriv, caDer, priv, derBytes, stdout,
                   cluster, fs0, dirWritable, umask, nextKey, nextSerial, rsVars>>

\* generateCA, lines 136-141: pem.Encode, the deferred Close, and the return
GenerateCA_Encode(p) ==
    /\ pc[p] = "ca_open"
    /\ \E r \in IOResults :
          /\ fs' = [fs EXCEPT ![caFileName] = Encode(@, CertificateBlock(caDer[p]), r)]
          /\ IF r = "write_err"
             THEN /\ return(p, "write: input/output error", "CA-Created")
                  /\ UNCHANGED <<ca, caKey>>
             ELSE /\ ca' = [ca EXCEPT ![p] = ParseCertificate(caDer[p])]
                  /\ caKey' = [caKey EXCEPT ![p] = caPriv[p]]
                  /\ return(p, NoErr, "CA-Created")
    /\ UNCHANGED <<procs, host, template, caPriv, caDer, priv, derBytes, stdout,
                   cluster, fs0, dirWritable, umask, nextKey, nextSerial, rsVars>>

\* generateCert, lines 148-158: newCertificate and the names of the host
GenerateCert_Template(p) ==
    /\ pc[p] = "CA-Created"
    /\ \/ /\ template' = [template EXCEPT ![p] = certTemplate(host[p], nextSerial)]
          /\ nextSerial' = nextSerial + 1
          /\ goto(p, "cert_template")
          /\ UNCHANGED err
       \/ /\ fatal(p, "failed to generate serial number")
          /\ UNCHANGED <<template, nextSerial>>
    /\ UNCHANGED <<procs, host, caPriv, caDer, ca, caKey, priv, derBytes, stdout,
                   cluster, fs, fs0, dirWritable, umask, nextKey, rsVars>>

\* generateCert, lines 160-163: newPrivateKey
GenerateCert_NewPrivateKey(p) ==
    /\ pc[p] = "cert_template"
    /\ \/ /\ priv' = [priv EXCEPT ![p] = nextKey]
          /\ nextKey' = nextKey + 1
          /\ goto(p, "cert_key")
          /\ UNCHANGED err
       \/ /\ return(p, "rsa: key generation failed", "Persisted")
          /\ UNCHANGED <<priv, nextKey>>
    /\ UNCHANGED <<procs, host, template, caPriv, caDer, ca, caKey, derBytes, stdout,
                   cluster, fs, fs0, dirWritable, umask, nextSerial, rsVars>>

\* generateFromTemplate, lines 171-174: x509.CreateCertificate
GenerateFromTemplate_CreateCertificate(p) ==
    /\ pc[p] = "cert_key"
    /\ \/ /\ derBytes' = [derBytes EXCEPT ![p] =
                 signFromTemplate(template[p], ca[p], priv[p], caKey[p])]
          /\ goto(p, "Leaf-Signed")
          /\ UNCHANGED err
       \/ /\ return(p, "x509: cannot sign", "Persisted")
          /\ UNCHANGED derBytes
    /\ UNCHANGED <<procs, host, template, caPriv, caDer, ca, caKey, priv, stdout,
                   cluster, fs, fs0, dirWritable, umask, nextKey, nextSerial, rsVars>>

\* generateFromTemplate, lines 176-179: os.Create(certFile)
GenerateFromTemplate_Create(p) ==
    /\ pc[p] = "Leaf-Signed"
    /\ \/ /\ dirWritable
          /\ fs' = [fs EXCEPT ![hostCertName] = Create(@, umask)]
          /\ goto(p, "cert_open")
          /\ UNCHANGED err
       \/ /\ return(p, "open: permission denied", "Persisted")
          /\ UNCHANGED fs
    /\ UNCHANGED <<procs, host, template, caPriv, caDer, ca, caKey, priv, derBytes,
                   stdout, cluster, fs0, dirWritable, umask, nextKey, nextSerial, rsVars>>

\* generateFromTemplate, lines 180-181: pem.Encode and Close, results dropped
GenerateFromTemplate_Encode(p) ==
    /\ pc[p] = "cert_open"
    /\ \E r \in IOResults :
          fs' = [fs EXCEPT ![hostCertName] = Encode(@, CertificateBlock(derBytes[p]), r)]
    /\ goto(p, "cert_written")
    /\ UNCHANGED <<procs, host, err, template, caPriv, caDer, ca, caKey, priv, derBytes,
                   stdout, cluster, fs0, dirWritable, umask, nextKey, nextSerial, rsVars>>

\* savePrivateKey, lines 188-191: os.OpenFile(keyFile, ..., 0600)
SavePrivateKey_OpenFile(p) ==
    /\ pc[p] = "cert_written"
    /\ \/ /\ dirWritable
          /\ fs' = [fs EXCEPT ![hostKeyName] = OpenFile(@, KeyFileMode, umask)]
          /\ goto(p, "key_open")
          /\ UNCHANGED err
       \/ /\ return(p, "open: permission denied", "Persisted")
          /\ UNCHANGED fs
    /\ UNCHANGED <<procs, host, template, caPriv, caDer, ca, caKey, priv, derBytes,
                   stdout, cluster, fs0, dirWritable, umask, nextKey, nextSerial, rsVars>>

\* savePrivateKey, lines 192-197: pem.Encode, results dropped, the deferred
\* Close, and return nil
SavePrivateKey_Encode(p) ==
    /\ pc[p] = "key_open"
    /\ \E r \in IOResults :
          fs' = [fs EXCEPT ![hostKeyName] = Encode(@, PrivateKeyBlock(priv[p]), r)]
    /\ return(p, NoErr, "Persisted")
    /\ UNCHANGED <<procs, host, template, caPriv, caDer, ca, caKey, priv, derBytes,
                   stdout, cluster, fs0, dirWritable, umask, nextKey, nextSerial, rsVars>>

\* what ExecCommand does is not in this file: kubectl runs, or the failure
\* is fatal
ExecCommand(p, next, secret) ==
    /\ \/ /\ cluster' = secret
          /\ goto(p, next)
          /\ UNCHANGED err
       \/ /\ fatal(p, "kubectl failed")
          /\ UNCHANGED cluster
    /\ UNCHANGED <<procs, host, template, caPriv, caDer, ca, caKey, priv, derBytes,
                   stdout, fs, fs0, dirWritable, umask, nextKey, nextSerial, rsVars>>

\* GeneratePKI, line 71: kubectl delete secret tls-pem
GeneratePKI_DeleteSecret(p) ==
    /\ pc[p] = "Persisted"
    /\ ExecCommand(p, "secret_deleted", << >>)

\* GeneratePKI, line 72: kubectl create secret tls tls-pem --cert --key
GeneratePKI_CreateSecret(p) ==
    /\ pc[p] = "secret_deleted"
    /\ ExecCommand(p, "secret_created",
                   << [cert |-> fs[hostCertName].data, key |-> fs[hostKeyName].data] >>)

\* GeneratePKI, lines 63-68 and 74-75: print the CA certificate
GeneratePKI_Println(p) ==
    /\ pc[p] = "secret_created"
    /\ stdout' = [stdout EXCEPT ![p] = << CertificateBlock(ca[p].Raw) >>]
    /\ goto(p, "Done")
    /\ UNCHANGED <<procs, host, err, template, caPriv, caDer, ca, caKey, priv, derBytes,
                   cluster, fs, fs0, dirWritable, umask, nextKey, nextSerial, rsVars>>

\* every invocation runs GeneratePKI from its own position
Next ==
    \/ \E p \in procs : GenerateCA_Template(p)
    \/ \E p \in procs : GenerateCA_NewPrivateKey(p)
    \/ \E p \in procs : GenerateCA_CreateCertificate(p)
    \/ \E p \in procs : GenerateCA_Create(p)
    \/ \E p \in procs : GenerateCA_Encode(p)
    \/ \E p \in procs : GenerateCert_Template(p)
    \/ \E p \in procs : GenerateCert_NewPrivateKey(p)
    \/ \E p \in procs : GenerateFromTemplate_CreateCertificate(p)
    \/ \E p \in procs : GenerateFromTemplate_Create(p)
    \/ \E p \in procs : GenerateFromTemplate_Encode(p)
    \/ \E p \in procs : SavePrivateKey_OpenFile(p)
    \/ \E p \in procs : SavePrivateKey_Encode(p)
    \/ \E p \in procs : GeneratePKI_DeleteSecret(p)
    \/ \E p \in procs : GeneratePKI_CreateSecret(p)
    \/ \E p \in procs : GeneratePKI_Println(p)

Spec == Init /\ [][Next]_vars

----------------------------------------------------------------------------
(* Two invocations of GeneratePKI on the same directory *)

InitConcurrent ==
    /\ InitPKI({1, 2}, {"127.0.0.1", "example.org"}, {EmptyDir}, {TRUE}, {18})
    /\ InitRandomString

SpecConcurrent == InitConcurrent /\ [][Next]_vars

----------------------------------------------------------------------------
(* RandomString *)

\* the bytes crypto/rand may give in the model
ByteSamples == {0, 1, 64, 65, 69, 70, 130, 255}

\* the index taken modulo one less than the alphabet's length
charOf_OffByOne(b) == randomStringChars[(b % ((Len(randomStringChars) - 1) % 256)) + 1]

\* line 40: randomStringChars[b%byte(len(randomStringChars))]
charOf(b) == randomStringChars[(b % (Len(randomStringChars) % 256)) + 1]

InitRandomStringCall ==
    /\ InitPKI({}, Hosts, {EmptyDir}, {TRUE}, {18})
    /\ rsPc = "call"
    /\ length \in 0..MaxLen
    /\ bytes = << >>
    /\ rsOut = << >>

\* lines 33-37: make the buffer and fill it from crypto/rand, or die
RandomString_Read ==
    /\ rsPc = "call"
    /\ \/ /\ bytes' \in [1..length -> ByteSamples]
          /\ rsPc' = "read"
       \/ /\ rsPc' = "fatal"
          /\ UNCHANGED bytes
    /\ UNCHANGED <<length, rsOut, pkiVars>>

\* lines 39-43: map every byte to a character and return the string
RandomString_Return ==
    /\ rsPc = "read"
    /\ rsOut' = [i \in 1..Len(bytes) |-> charOf(bytes[i])]
    /\ rsPc' = "returned"
    /\ UNCHANGED <<length, bytes, pkiVars>>

NextRandomString == RandomString_Read \/ RandomString_Return

SpecRandomString == InitRandomStringCall /\ [][NextRandomString]_vars

----------------------------------------------------------------------------
(* Positions and phases of an invocation *)

InGenerateCA == {"Start", "ca_template", "ca_key", "ca_signed", "ca_open"}
InGenerateCert == {"cert_template", "cert_key", "Leaf-Signed", "cert_open",
                   "cert_written", "key_open"}
AfterGenerateCert == {"Persisted", "secret_deleted", "secret_created", "Done"}

\* generateCert has returned nil to invocation p
CertReturnedNil(p) ==
    \/ pc[p] \in AfterGenerateCert
    \/ pc[p] = "Failed" /\ err[p] = "kubectl failed"

\* the state of the invocation's state machine at position l
Phase(l) ==
    CASE l \in InGenerateCA -> "Start"
      [] l \in {"CA-Created", "cert_template", "cert_key"} -> "CA-Created"
      [] l \in {"Leaf-Signed", "cert_open", "cert_written", "key_open"} -> "Leaf-Signed"
      [] l \in {"Persisted", "secret_deleted", "secret_created"} -> "Persisted"
      [] l = "Done" -> "Done"
      [] OTHER -> "Failed"

PhaseOrder == << "Start", "CA-Created", "Leaf-Signed", "Persisted", "Done" >>

\* phase b is phase a or the one that follows it
NextPhase(a, b) ==
    \E i \in 1..Len(PhaseOrder) :
        /\ PhaseOrder[i] = a
        /\ \/ b = a
           \/ i < Len(PhaseOrder) /\ b = PhaseOrder[i + 1]

Blocks(f) == {fs[f].data[i] : i \in 1..Len(fs[f].data)}

\* the run has not touched file f
Untouched(f) == fs[f] = fs0[f]

----------------------------------------------------------------------------
(* C1 *)

\* C1: generateCert returns nil only if both the certificate file and the
\* key file have been completely written
C1_NoPartialSuccess ==
    \A p \in procs :
        CertReturnedNil(p) =>
            /\ Holds(fs[hostCertName], CertificateBlock(derBytes[p]))
            /\ Holds(fs[hostKeyName], PrivateKeyBlock(priv[p]))

----------------------------------------------------------------------------
(* C2 *)

\* C2: the CA's private key is never written to disk: the run writes only
\* the CA certificate file, the leaf certificate file and the leaf key file,
\* a private key on disk is in the key file and is the leaf's own, and while
\* generateCA runs only the CA certificate file is written
C2_CAKeyNeverOnDisk ==
    /\ DOMAIN fs = {caFileName, hostCertName, hostKeyName}
    /\ \A f \in DOMAIN fs : \A b \in Blocks(f) :
          /\ b.Type = "RSA PRIVATE KEY" =>
                /\ f = hostKeyName
                /\ \A p \in procs : b.Bytes.PKCS1 # caPriv[p] /\ b.Bytes.PKCS1 # caKey[p]
                /\ \/ Untouched(f)
                   \/ \E p \in procs : priv[p] # 0 /\ b = PrivateKeyBlock(priv[p])
          /\ f # hostKeyName => b.Type = "CERTIFICATE"
    /\ \A b \in Blocks(caFileName) :
          \/ Untouched(caFileName)
          \/ \E p \in procs : caDer[p] # NoDer /\ b = CertificateBlock(caDer[p])
    /\ (\A p \in procs : pc[p] \in InGenerateCA \cup {"CA-Created"}) =>
          Untouched(hostCertName) /\ Untouched(hostKeyName)

\* a run that ended well, with the leaf's key in the key file
C2_Witness ==
    \E p \in procs :
        /\ pc[p] = "Done"
        /\ caKey[p] # 0
        /\ Holds(fs[hostKeyName], PrivateKeyBlock(priv[p]))
        /\ Holds(fs[caFileName], CertificateBlock(caDer[p]))

----------------------------------------------------------------------------
(* C3 *)

\* C3: after generateCert returns nil the key file gives no access to group
\* or others, whatever the directory held before the call
C3_KeyFileOwnerOnly ==
    \A p \in procs :
        CertReturnedNil(p) => fs[hostKeyName].mode % 64 = 0

----------------------------------------------------------------------------
(* C4 *)

\* what holds of every state of an invocation, by its phase
C4_StateOrder ==
    \A p \in procs :
        \* leaf generation only with the CA certificate and key returned
        /\ Phase(pc[p]) \in {"CA-Created", "Leaf-Signed", "Persisted", "Done"} =>
              /\ caDer[p] # NoDer
              /\ ca[p] = ParseCertificate(caDer[p])
              /\ caKey[p] # 0 /\ caKey[p] = caPriv[p]
        /\ pc[p] \in InGenerateCA => priv[p] = 0 /\ derBytes[p] = NoDer
        \* install and print only after generateCert returned nil
        /\ Phase(pc[p]) \in {"Persisted", "Done"} =>
              /\ priv[p] # 0 /\ derBytes[p] # NoDer
              /\ fs[hostCertName].exists /\ fs[hostKeyName].exists
        /\ Phase(pc[p]) \notin {"Persisted", "Done"} /\ err[p] # "kubectl failed" =>
              cluster = << >>
        /\ stdout[p] # << >> => pc[p] = "Done"
        \* an error of any step is fatal
        /\ err[p] # NoErr <=> pc[p] = "Failed"

\* what every step of an invocation does to its phase
C4_Steps ==
    \A p \in procs :
        /\ pc[p] # "Failed" =>
              \/ NextPhase(Phase(pc[p]), Phase(pc'[p]))
              \/ pc[p] # "Done" /\ pc'[p] = "Failed"
        /\ pc[p] \in {"Failed", "Done"} =>
              /\ pc'[p] = pc[p]
              /\ UNCHANGED <<err, template, caPriv, caDer, ca, caKey, priv,
                             derBytes, stdout, nextKey, nextSerial>>
              /\ procs = {p} => UNCHANGED <<fs, cluster>>

----------------------------------------------------------------------------
(* C5 *)

\* C5: the leaf certificate has the CA's subject as issuer, is signed with
\* the CA's private key and verifies against the CA's public key, carries
\* the leaf's own new public key, and is not signed with the leaf's key; the
\* certificate file holds no other certificate of this run
C5_SignedByCA ==
    /\ \A p \in procs :
          derBytes[p] # NoDer =>
              /\ derBytes[p].TBS.Issuer = ca[p].Subject
              /\ derBytes[p].TBS.Issuer =
                    [Organization |-> << org >>,
                     CommonName |-> "Zarf Private Certificate Authority"]
              /\ derBytes[p].TBS.Issuer # derBytes[p].TBS.Subject
              /\ derBytes[p].Signature.by = caKey[p]
              /\ CheckSignatureFrom(derBytes[p], ca[p])
              /\ derBytes[p].TBS.PublicKey = Public(priv[p])
              /\ priv[p] # caKey[p]
              /\ ~CheckSignatureFrom(derBytes[p], ParseCertificate(derBytes[p]))
    /\ \A b \in Blocks(hostCertName) :
          \/ Untouched(hostCertName)
          \/ \E p \in procs : derBytes[p] # NoDer /\ b = CertificateBlock(derBytes[p])

\* the signed leaf certificate is in the certificate file
C5_Witness ==
    \E p \in procs :
        /\ pc[p] = "Done"
        /\ Holds(fs[hostCertName], CertificateBlock(derBytes[p]))
        /\ CheckSignatureFrom(derBytes[p], ca[p])

----------------------------------------------------------------------------
(* C6 *)

\* C6: for a host that is a literal IP address the leaf has exactly that
\* address as IP SAN, no DNS SAN and no common name; for any other host the
\* DNS SANs are host, localhost, *.localhost, there is no IP SAN and the
\* common name is the host
C6_SubjectAltNames ==
    \A p \in procs :
        derBytes[p] # NoDer =>
            LET c == derBytes[p].TBS IN
            /\ IF ParseIP(host[p]) # NilIP
               THEN /\ c.IPAddresses = << ParseIP(host[p]) >>
                    /\ c.DNSNames = << >>
                    /\ c.Subject.CommonName = ""
               ELSE /\ c.DNSNames = << host[p], "localhost", "*.localhost" >>
                    /\ c.IPAddresses = << >>
                    /\ c.Subject.CommonName = host[p]
            /\ host[p] = "127.0.0.1" =>
                  c.IPAddresses = << IPv4(127, 0, 0, 1) >> /\ c.DNSNames = << >>
            /\ host[p] = "::1" =>
                  c.IPAddresses = << << 0,0,0,0,0,0,0,0,0,0,0,0,0,0,0,1 >> >>
            /\ host[p] \in {"example.org", "10.0.0.256", "1.2.3", "localhost", ""} =>
                  c.DNSNames = << host[p], "localhost", "*.localhost" >>

\* a leaf for 127.0.0.1 was signed and written
C6_Witness ==
    \E p \in procs :
        /\ host[p] = "127.0.0.1"
        /\ pc[p] = "Done"
        /\ derBytes[p].TBS.IPAddresses = << IPv4(127, 0, 0, 1) >>
        /\ Holds(fs[hostCertName], CertificateBlock(derBytes[p]))

----------------------------------------------------------------------------
(* C7 *)

\* C7: the CA certificate is a CA with key usage digital signature, key
\* encipherment and certificate sign; the leaf is no CA and has key usage
\* digital signature and key encipherment, without certificate sign
C7_KeyUsage ==
    \A p \in procs :
        /\ caDer[p] # NoDer =>
              /\ caDer[p].TBS.IsCA
              /\ caDer[p].TBS.KeyUsage = 1 + 4 + 32
        /\ derBytes[p] # NoDer =>
              /\ ~derBytes[p].TBS.IsCA
              /\ derBytes[p].TBS.KeyUsage = 1 + 4
              /\ BitAnd(derBytes[p].TBS.KeyUsage, KeyUsageCertSign) = 0

\* both certificates were made
C7_Witness ==
    \E p \in procs :
        /\ caDer[p] # NoDer
        /\ derBytes[p] # NoDer
        /\ pc[p] = "Done"

----------------------------------------------------------------------------
(* C8 *)

\* C8 as stated: RandomString(n) has length n and its i-th character is the
\* alphabet's character at index (i-th byte mod 70), the alphabet having 70
\* characters
C8_Alphabet70 ==
    rsPc = "returned" =>
        /\ Len(rsOut) = length
        /\ Len(randomStringChars) = 70
        /\ \A i \in 1..length :
              /\ (bytes[i] % 70) + 1 \in DOMAIN randomStringChars
              /\ rsOut[i] = randomStringChars[(bytes[i] % 70) + 1]

\* C8, amended: RandomString(n) has length n and its i-th character is the
\* alphabet's character at index (i-th byte mod 65), the alphabet having 65
\* characters: 10 digits, 26 lower case and 26 upper case letters, 3 symbols
C8_Alphabet65 ==
    /\ Len(randomStringChars) = 65
    /\ Cardinality({randomStringChars[i] : i \in 1..Len(randomStringChars)}) = 65
    /\ rsPc = "returned" =>
          /\ Len(rsOut) = length
          /\ Len(bytes) = length
          /\ \A i \in 1..length :
                /\ rsOut[i] = randomStringChars[(bytes[i] % 65) + 1]
                /\ \E j \in 1..65 : rsOut[i] = randomStringChars[j]

\* a string of the greatest length with a byte that wraps around
C8_Witness ==
    /\ rsPc = "returned"
    /\ length = MaxLen
    /\ Len(rsOut) = MaxLen
    /\ \E i \in 1..length : bytes[i] = 70 /\ rsOut[i] = "5"

----------------------------------------------------------------------------
(* C9 *)

\* C9: with a directory in which no file can be created the run fails with
\* the I/O error of the first creation, writes no file, and neither starts
\* the leaf nor installs the secret nor ends well
C9_UnwritableDirectory ==
    ~dirWritable =>
        /\ fs = fs0
        /\ cluster = << >>
        /\ \A p \in procs :
              /\ pc[p] \in InGenerateCA \cup {"Failed"}
              /\ priv[p] = 0 /\ derBytes[p] = NoDer
              /\ ca[p] = NoCert /\ caKey[p] = 0
              /\ stdout[p] = << >>
              /\ pc[p] = "Failed" /\ caDer[p] # NoDer =>
                    err[p] = "open: permission denied"

\* the run failed at os.Create(caFile) and the directory is empty
C9_Witness ==
    \E p \in procs :
        /\ ~dirWritable
        /\ pc[p] = "Failed"
        /\ caDer[p] # NoDer
        /\ err[p] = "open: permission denied"
        /\ \A f \in Paths : ~fs[f].exists

----------------------------------------------------------------------------
(* C10 *)

\* C10: concurrent invocations share nothing in memory: their key pairs are
\* all different and each signs its leaf with the CA it made itself, and
\* prints that CA; they race only on the files
C10_NoSharedMemory ==
    \A p \in procs :
        /\ \A q \in procs \ {p} :
              /\ caPriv[p] # 0 => caPriv[p] \notin {caPriv[q], priv[q], priv[p]}
              /\ priv[p] # 0 => priv[p] \notin {caPriv[q], priv[q]}
              /\ caDer[p] # NoDer => caDer[p] # caDer[q]
        /\ caKey[p] \in {0, caPriv[p]}
        /\ ca[p] # NoCert => caDer[p] # NoDer /\ ca[p] = ParseCertificate(caDer[p])
        /\ derBytes[p] # NoDer =>
              /\ derBytes[p].Signature.by = caPriv[p]
              /\ derBytes[p].TBS.Issuer = caDer[p].TBS.Subject
              /\ derBytes[p].TBS.PublicKey = Public(priv[p])
              /\ CheckSignatureFrom(derBytes[p], ParseCertificate(caDer[p]))
        /\ stdout[p] # << >> => stdout[p] = << CertificateBlock(caDer[p]) >>

\* both invocations ended well, every file is completely written, and the
\* files are not of one invocation: the key file holds the key of one and the
\* certificate file the certificate of the other, which the CA in the CA file
\* did not sign
C10_Witness ==
    /\ Cardinality(procs) = 2
    /\ \A p \in procs : pc[p] = "Done" /\ err[p] = NoErr
    /\ \E p \in procs : \E q \in procs \ {p} :
          /\ Holds(fs[hostKeyName], PrivateKeyBlock(priv[p]))
          /\ Holds(fs[hostCertName], CertificateBlock(derBytes[q]))
          /\ Holds(fs[caFileName], CertificateBlock(caDer[p]))
          /\ derBytes[q].TBS.PublicKey # Public(priv[p])
          /\ ~CheckSignatureFrom(derBytes[q], ParseCertificate(caDer[p]))

====
